---- MODULE Spec2Model ----
(***************************************************************************)
(* Column cleaner of src/main.py: the per-column normalisation rules       *)
(* (clean_mylar_name, clean_color, clean_material, clean_fingerprint,      *)
(* clean_adhesive, clean_other, clean_number), the dispatcher clean_cell   *)
(* and the cleaning loop that writes the table back and keeps the change   *)
(* log and the list of cells to flag.                                      *)
(*                                                                         *)
(* A Python str is a sequence of one-character strings; Str turns a        *)
(* literal into that form; a Chinese character is written as its code     *)
(* point ("U+9ED1" is 黑), one element of the sequence like any other     *)
(* character.  A missing cell (NaN under dtype=str) is NA.                 *)
(* fuzz.ratio is the normalised Indel similarity of rapidfuzz,             *)
(* 200 * LCS / (len(a) + len(b)), and process.extractOne is called with    *)
(* no processor (rapidfuzz 3), so the comparison is case sensitive.        *)
(***************************************************************************)
EXTENDS Integers, Sequences, FiniteSets, TLC

VARIABLES
    uploaded_file,  \* the table of the uploaded file: its columns and cells
    phase,          \* idle, uploaded, cleaning, done
    df,             \* the DataFrame: column name -> the column's cells
    missing,        \* the target columns the file does not have
    todo,           \* the columns the cleaning loop has yet to visit
    col_name,       \* the column being cleaned ("": between columns)
    row_idx,        \* the Excel row of the next cell (row 1 is the header)
    new_col,        \* the cleaned cells of the column so far
    cell_colors,    \* the (row, column) pairs to fill green
    changes,        \* the change log
    rstage, rcol, rval, res1, res2
                    \* one cell given to clean_cell: the stage, the column,
                    \* the value, the result and the result of cleaning
                    \* the returned value again

driverVars == <<uploaded_file, phase, df, missing, todo, col_name, row_idx,
                new_col, cell_colors, changes>>
ruleVars == <<rstage, rcol, rval, res1, res2>>
vars == <<uploaded_file, phase, df, missing, todo, col_name, row_idx, new_col,
          cell_colors, changes, rstage, rcol, rval, res1, res2>>

----------------------------------------------------------------------------
(* Strings *)

Str(s) == [i \in 1..Len(s) |-> SubSeq(s, i, i)]

NA == <<"NaN">>

isna(v) == v = NA

LowerLetters == Str("abcdefghijklmnopqrstuvwxyz")
UpperLetters == Str("ABCDEFGHIJKLMNOPQRSTUVWXYZ")
Digits == {"0", "1", "2", "3", "4", "5", "6", "7", "8", "9"}
Whitespace == {" ", "\t", "\n"}

IsLowerCh(c) == \E i \in 1..26 : LowerLetters[i] = c
IsUpperCh(c) == \E i \in 1..26 : UpperLetters[i] = c

UpperCh(c) ==
    IF IsLowerCh(c) THEN UpperLetters[CHOOSE i \in 1..26 : LowerLetters[i] = c]
    ELSE c

LowerCh(c) ==
    IF IsUpperCh(c) THEN LowerLetters[CHOOSE i \in 1..26 : UpperLetters[i] = c]
    ELSE c

upper(s) == [i \in 1..Len(s) |-> UpperCh(s[i])]
lower(s) == [i \in 1..Len(s) |-> LowerCh(s[i])]

capitalize(s) ==
    [i \in 1..Len(s) |-> IF i = 1 THEN UpperCh(s[i]) ELSE LowerCh(s[i])]

RECURSIVE lstrip(_)
lstrip(s) ==
    IF s # <<>> /\ Head(s) \in Whitespace THEN lstrip(Tail(s)) ELSE s

RECURSIVE rstrip(_)
rstrip(s) ==
    IF s # <<>> /\ s[Len(s)] \in Whitespace
    THEN rstrip(SubSeq(s, 1, Len(s) - 1))
    ELSE s

strip(s) == rstrip(lstrip(s))

\* pd.isna(val) or not str(val).strip(): the first test of every rule
\* The blank test without strip(): whitespace-only text is not blank
IsBlankNoStrip(val) == isna(val) \/ val = <<>>

IsBlank(val) == isna(val) \/ strip(val) = <<>>

\* s.rstrip(c) for a single character c
RECURSIVE rstripCh(_, _)
rstripCh(s, c) ==
    IF s # <<>> /\ s[Len(s)] = c
    THEN rstripCh(SubSeq(s, 1, Len(s) - 1), c)
    ELSE s

\* s.replace(c, t) for a single character c
RECURSIVE replace(_, _, _)
replace(s, c, t) ==
    IF s = <<>> THEN <<>>
    ELSE (IF Head(s) = c THEN t ELSE <<Head(s)>>) \o replace(Tail(s), c, t)

startswith(s, p) == Len(p) <= Len(s) /\ SubSeq(s, 1, Len(p)) = p

\* p in s
contains(s, p) ==
    \E i \in 1..(Len(s) - Len(p) + 1) : SubSeq(s, i, i + Len(p) - 1) = p

\* s.split(): the maximal runs of non-whitespace characters
RECURSIVE splitFrom(_, _)
splitFrom(s, cur) ==
    IF s = <<>> THEN (IF cur = <<>> THEN <<>> ELSE <<cur>>)
    ELSE IF Head(s) \in Whitespace
         THEN (IF cur = <<>> THEN <<>> ELSE <<cur>>) \o splitFrom(Tail(s), <<>>)
         ELSE splitFrom(Tail(s), Append(cur, Head(s)))

split(s) == splitFrom(s, <<>>)

\* " ".join(words)
RECURSIVE join(_)
join(words) ==
    IF words = <<>> THEN <<>>
    ELSE IF Len(words) = 1 THEN words[1]
    ELSE words[1] \o <<" ">> \o join(Tail(words))

InList(s, pool) == \E i \in 1..Len(pool) : pool[i] = s

Max(a, b) == IF a >= b THEN a ELSE b

----------------------------------------------------------------------------
(* Reference vocabularies *)

MYLAR_CATS == <<Str("Mylar"), Str("MB Mylar"), Str("DB Mylar"), Str("KB Mylar"),
                Str("Touchpad Mylar"), Str("D Cover Mylar"), Str("TCON Mylar")>>
COLORS == <<Str("Black"), Str("Yellow"), Str("Blue")>>
MATERIALS == <<Str("PC"), Str("PET"), Str("PVC"), Str("Acrylic")>>
ADHESIVES == <<Str("3M9495"), Str("3M300LSE"), Str("3M9448A"), Str("3M9448B"),
               Str("3M200MP"), Str("DSTT-13N"), Str("DSTT-7N"), Str("SDK7100")>>
OTHERS == <<Str("Object"), Str("Gluing")>>

\* Column names, in pinyin: 物料简称, 名称, 项目名称, 颜色, 材质, 长L(mm),
\* 宽W(mm), 厚H(mm), 是否带指纹, 背胶型号, 其它特殊属性
TARGET_COLS == <<"WuLiaoJianCheng", "MingCheng", "XiangMuMingCheng", "YanSe",
                 "CaiZhi", "Chang_L(mm)", "Kuan_W(mm)", "Hou_H(mm)",
                 "ShiFouDaiZhiWen", "BeiJiaoXingHao", "QiTaTeShuShuXing">>

\* Chinese keywords of the rules
CN_TOUCHPAD == <<"U+89E6", "U+6478", "U+677F">>           \* 触摸板
CN_KEYBOARD == <<"U+952E", "U+76D8">>                     \* 键盘
CN_MAINBOARD == <<"U+4E3B", "U+677F">>                    \* 主板
CN_SUBBOARD == <<"U+526F", "U+677F">>                     \* 副板
CN_MYLAR == <<"U+9EA6", "U+62C9">>                        \* 麦拉
CN_HEI == <<"U+9ED1">>                                    \* 黑
CN_HUANG == <<"U+9EC4">>                                  \* 黄
CN_LAN == <<"U+84DD">>                                    \* 蓝
CN_SE == <<"U+8272">>                                     \* 色
CN_POLYCARBONATE == <<"U+805A", "U+78B3", "U+9178", "U+916F">>  \* 聚碳酸酯
CN_POLYESTER == <<"U+805A", "U+916F">>                    \* 聚酯
CN_ACRYLIC == <<"U+4E19", "U+70EF", "U+9178">>            \* 丙烯酸
CN_PVC == <<"U+805A", "U+6C2F", "U+4E59", "U+70EF">>      \* 聚氯乙烯
CN_YOU == <<"U+6709">>                                    \* 有
CN_WU == <<"U+65E0">>                                     \* 无
CN_JIAOHE == <<"U+80F6", "U+5408">>                       \* 胶合
CN_ZHANJIE == <<"U+7C98", "U+63A5">>                      \* 粘接
CN_ZHANHE == <<"U+7C98", "U+5408">>                       \* 粘合

Result(v, c, r) == [value |-> v, changed |-> c, rule |-> r]

----------------------------------------------------------------------------
(* smart_title and fuzzy_one *)

specials == {Str("MB"), Str("DB"), Str("KB"), Str("TCON"), Str("PC"),
             Str("PET"), Str("PVC")}

TitleWord(w) == IF upper(w) \in specials THEN upper(w) ELSE capitalize(w)

smart_title(text) ==
    LET t == replace(replace(text, "-", <<" ">>), "_", <<" ">>)
        words == split(t)
    IN  join([i \in 1..Len(words) |-> TitleWord(words[i])])

\* One row of the longest-common-subsequence table: prev is the row of the
\* characters of a before x, cur the part of the row with x built so far.
RECURSIVE LcsRow(_, _, _, _)
LcsRow(x, b, prev, cur) ==
    IF Len(cur) = Len(b) THEN cur
    ELSE LET j == Len(cur) + 1
             left == IF j = 1 THEN 0 ELSE cur[j - 1]
             diag == IF j = 1 THEN 0 ELSE prev[j - 1]
             v == IF x = b[j] THEN diag + 1 ELSE Max(prev[j], left)
         IN  LcsRow(x, b, prev, Append(cur, v))

RECURSIVE LcsRows(_, _, _)
LcsRows(a, b, prev) ==
    IF a = <<>> THEN prev
    ELSE LcsRows(Tail(a), b, LcsRow(Head(a), b, prev, <<>>))

\* The length of the longest common subsequence of a and b
Lcs(a, b) ==
    IF a = <<>> \/ b = <<>> THEN 0
    ELSE LcsRows(a, b, [j \in 1..Len(b) |-> 0])[Len(b)]

\* fuzz.ratio(a, b) = 200 * Lcs(a, b) / (len(a) + len(b)); a score is kept as
\* the fraction <<200 * Lcs(a, b), len(a) + len(b)>>
ratio(a, b) == <<200 * Lcs(a, b), Len(a) + Len(b)>>

ScoreAtLeast(score, threshold) == score[1] >= threshold * score[2]

ScoreGreater(x, y) == x[1] * y[2] > y[1] * x[2]

\* The score of s against every choice
RECURSIVE Scores(_, _)
Scores(s, pool) ==
    IF pool = <<>> THEN <<>>
    ELSE <<ratio(s, Head(pool))>> \o Scores(s, Tail(pool))

\* process.extractOne(s, pool, scorer=fuzz.ratio): the first choice of the
\* best score, with its score
extractOne(s, pool) ==
    LET scores == Scores(s, pool)
        best == CHOOSE i \in 1..Len(pool) :
                    /\ \A j \in 1..Len(pool) : ~ScoreGreater(scores[j], scores[i])
                    /\ \A j \in 1..(i - 1) : ScoreGreater(scores[i], scores[j])
    IN  <<pool[best], scores[best]>>

None == <<"None">>

fuzzy_one(s, pool, threshold) ==
    IF s = <<>> THEN None
    ELSE LET match == extractOne(s, pool)
         IN  IF ScoreAtLeast(match[2], threshold) THEN match[1] ELSE None

----------------------------------------------------------------------------
(* 1) clean_mylar_name *)

MylarGeneric(txt_u) ==
    IF contains(<<" ">> \o txt_u \o <<" ">>, Str(" MB")) \/ startswith(txt_u, Str("MB "))
    THEN Result(Str("MB Mylar"), TRUE, "keyword_rule")
    ELSE IF contains(<<" ">> \o txt_u \o <<" ">>, Str(" DB"))
    THEN Result(Str("DB Mylar"), TRUE, "keyword_rule")
    ELSE IF contains(<<" ">> \o txt_u \o <<" ">>, Str(" KB"))
    THEN Result(Str("KB Mylar"), TRUE, "keyword_rule")
    ELSE IF \/ contains(txt_u, Str("TOUCH"))
            \/ contains([i \in 1..Len(txt_u) |->
                            IF IsUpperCh(txt_u[i]) THEN txt_u[i] ELSE " "],
                        Str("TP"))
    THEN Result(Str("Touchpad Mylar"), TRUE, "keyword_rule")
    ELSE Result(Str("Mylar"), TRUE, "cn_keyword")

MylarEnglish(raw) ==
    LET norm == smart_title(raw)
    IN  IF InList(norm, MYLAR_CATS)
        THEN Result(norm, norm # raw, IF norm # raw THEN "case_fix" ELSE "standard")
        ELSE LET hit == fuzzy_one(norm, MYLAR_CATS, 86)
             IN  IF hit # None THEN Result(hit, TRUE, "fuzzy")
                 ELSE Result(raw, FALSE, "unchanged")

clean_mylar_name(val) ==
    IF IsBlank(val) THEN Result(val, FALSE, "none")
    ELSE LET raw == strip(val)
             txt_u == upper(raw)
         IN  IF contains(raw, CN_TOUCHPAD)
             THEN Result(Str("Touchpad Mylar"), TRUE, "cn_keyword")
             ELSE IF contains(raw, CN_KEYBOARD)
             THEN Result(Str("KB Mylar"), TRUE, "cn_keyword")
             ELSE IF contains(raw, CN_MAINBOARD)
             THEN Result(Str("MB Mylar"), TRUE, "cn_keyword")
             ELSE IF contains(raw, CN_SUBBOARD) \/ contains(txt_u, Str("DDR"))
             THEN Result(Str("DB Mylar"), TRUE, "cn_keyword")
             ELSE IF contains(raw, CN_MYLAR) \/ contains(txt_u, Str("MYLAR"))
             THEN MylarGeneric(txt_u)
             ELSE MylarEnglish(raw)

----------------------------------------------------------------------------
(* 2) clean_color *)

COLOR_CN == <<<<CN_HEI, Str("Black")>>, <<CN_HEI \o CN_SE, Str("Black")>>,
              <<CN_HUANG, Str("Yellow")>>, <<CN_HUANG \o CN_SE, Str("Yellow")>>,
              <<CN_LAN, Str("Blue")>>, <<CN_LAN \o CN_SE, Str("Blue")>>>>

\* dict.get(key, None)
DictGet(dict, key) ==
    IF \E i \in 1..Len(dict) : dict[i][1] = key
    THEN dict[CHOOSE i \in 1..Len(dict) : dict[i][1] = key][2]
    ELSE None

\* ^\s*(tok1|tok2|...)\s*$ under re.IGNORECASE
StrictMatch(s, tokens) == lower(strip(s)) \in tokens

ColorTokens == {CN_HEI, CN_HEI \o CN_SE, CN_HUANG, CN_HUANG \o CN_SE,
                CN_LAN, CN_LAN \o CN_SE, Str("black"), Str("yellow"), Str("blue")}

COLOR_STRICT_RE(s) == StrictMatch(s, ColorTokens)

\* The fuzzy fallback of clean_color with the threshold lowered to 88
ColorFuzzy88(raw) ==
    LET hit == fuzzy_one(raw, COLORS, 88)
    IN  IF hit # None THEN Result(hit, TRUE, "fuzzy")
        ELSE Result(raw, FALSE, "unchanged")

ColorFuzzy(raw) ==
    LET hit == fuzzy_one(raw, COLORS, 92)
    IN  IF hit # None THEN Result(hit, TRUE, "fuzzy")
        ELSE Result(raw, FALSE, "unchanged")

clean_color(val) ==
    IF IsBlank(val) THEN Result(val, FALSE, "none")
    ELSE LET raw == strip(val)
             key == lower(raw)
             std == capitalize(key)
             mapped == DictGet(COLOR_CN, raw)
         IN  IF COLOR_STRICT_RE(raw) /\ key \in {Str("black"), Str("yellow"), Str("blue")}
             THEN Result(std, std # raw, IF std # raw THEN "case_fix" ELSE "standard")
             ELSE IF COLOR_STRICT_RE(raw) /\ mapped # None
             THEN Result(mapped, TRUE, "cn_mapping")
             ELSE ColorFuzzy(raw)

----------------------------------------------------------------------------
(* 3) clean_material *)

MATERIAL_CN == <<<<CN_POLYCARBONATE, Str("PC")>>, <<CN_POLYESTER, Str("PET")>>,
                 <<CN_ACRYLIC, Str("Acrylic")>>, <<CN_PVC, Str("PVC")>>>>

MaterialTokens == {Str("pc"), Str("pet"), Str("pvc"), Str("acrylic"),
                   CN_POLYCARBONATE, CN_POLYESTER, CN_ACRYLIC, CN_PVC}

MATERIAL_STRICT_RE(s) == StrictMatch(s, MaterialTokens)

MaterialFuzzy(raw) ==
    LET hit == fuzzy_one(raw, MATERIALS, 92)
    IN  IF hit # None THEN Result(hit, TRUE, "fuzzy")
        ELSE Result(raw, FALSE, "unchanged")

clean_material(val) ==
    IF IsBlank(val) THEN Result(val, FALSE, "none")
    ELSE LET raw == strip(val)
             low == lower(raw)
             std == upper(low)
             mapped == DictGet(MATERIAL_CN, raw)
         IN  IF MATERIAL_STRICT_RE(raw) /\ low \in {Str("pc"), Str("pet"), Str("pvc")}
             THEN Result(std, std # raw, IF std # raw THEN "case_fix" ELSE "standard")
             ELSE IF MATERIAL_STRICT_RE(raw) /\ low = Str("acrylic")
             THEN Result(Str("Acrylic"), raw # Str("Acrylic"),
                         IF raw # Str("Acrylic") THEN "case_fix" ELSE "standard")
             ELSE IF MATERIAL_STRICT_RE(raw) /\ mapped # None
             THEN Result(mapped, TRUE, "cn_mapping")
             ELSE MaterialFuzzy(raw)

----------------------------------------------------------------------------
(* 4) clean_fingerprint *)

W_FP == Str("W/ FP")
WO_FP == Str("W/O FP")

FingerprintStandard(val, raw) ==
    IF raw = Str("W/FP")
    THEN Result(W_FP, W_FP # val, IF W_FP # val THEN "case_fix" ELSE "standard")
    ELSE IF raw = Str("W/OFP")
    THEN Result(WO_FP, WO_FP # val, IF WO_FP # val THEN "case_fix" ELSE "standard")
    ELSE Result(val, FALSE, "unchanged")

clean_fingerprint(val) ==
    IF IsBlank(val) THEN Result(val, FALSE, "none")
    ELSE LET raw == replace(upper(strip(val)), " ", <<>>)
         IN  IF raw \in {CN_YOU, Str("YES"), Str("Y")}
             THEN Result(W_FP, TRUE, "mapping")
             ELSE IF raw \in {CN_WU, Str("NO"), Str("N")}
             THEN Result(WO_FP, TRUE, "mapping")
             ELSE IF \/ contains(raw, Str("W/FP"))
                     \/ contains(raw, Str("WITHFP"))
                     \/ contains(raw, Str("HASFP"))
             THEN Result(W_FP, TRUE, "mapping")
             ELSE IF \/ contains(raw, Str("W/OFP"))
                     \/ contains(raw, Str("WITHOUTFP"))
                     \/ contains(raw, Str("NOFP"))
             THEN Result(WO_FP, TRUE, "mapping")
             ELSE FingerprintStandard(val, raw)

----------------------------------------------------------------------------
(* 5) clean_adhesive *)

AdhesiveNorm(s) == replace(upper(s), " ", <<>>)

\* The fuzzy fallback of clean_adhesive with the threshold lowered to 90
AdhesiveFuzzy90(raw) ==
    LET hit == fuzzy_one(raw, ADHESIVES, 90)
    IN  IF hit # None THEN Result(hit, TRUE, "fuzzy")
        ELSE Result(raw, FALSE, "unchanged")

AdhesiveFuzzy(raw) ==
    LET hit == fuzzy_one(raw, ADHESIVES, 94)
    IN  IF hit # None THEN Result(hit, TRUE, "fuzzy")
        ELSE Result(raw, FALSE, "unchanged")

clean_adhesive(val) ==
    IF IsBlank(val) THEN Result(val, FALSE, "none")
    ELSE LET raw == strip(val)
             norm == AdhesiveNorm(raw)
             Same(i) == norm = AdhesiveNorm(ADHESIVES[i])
         IN  IF InList(raw, ADHESIVES) THEN Result(raw, FALSE, "standard")
             ELSE IF \E i \in 1..Len(ADHESIVES) : Same(i)
             THEN LET i == CHOOSE i \in 1..Len(ADHESIVES) :
                               Same(i) /\ \A j \in 1..(i - 1) : ~Same(j)
                      a == ADHESIVES[i]
                  IN  Result(a, a # raw, IF a # raw THEN "case_fix" ELSE "standard")
             ELSE AdhesiveFuzzy(raw)

----------------------------------------------------------------------------
(* 6) clean_other *)

GLUING == Str("Gluing")

clean_other(val) ==
    IF IsBlank(val) THEN Result(val, FALSE, "none")
    ELSE LET raw == strip(val)
             u == upper(raw)
         IN  IF \/ contains(u, Str("GLUING")) \/ contains(u, Str("GLUE"))
                \/ contains(u, Str("ADHESIVE")) \/ contains(u, Str("BOND"))
             THEN Result(GLUING, raw # GLUING,
                         IF raw # GLUING THEN "mapping" ELSE "standard")
             ELSE IF \/ contains(raw, CN_JIAOHE) \/ contains(raw, CN_ZHANJIE)
                     \/ contains(raw, CN_ZHANHE)
             THEN Result(GLUING, TRUE, "cn_mapping")
             ELSE IF InList(raw, OTHERS) THEN Result(raw, FALSE, "standard")
             ELSE Result(raw, FALSE, "unchanged")

----------------------------------------------------------------------------
(* 7) clean_number *)

DigitSeq == Str("0123456789")

DigitVal(c) == (CHOOSE i \in 1..10 : DigitSeq[i] = c) - 1

\* int(digits)
RECURSIVE IntVal(_)
IntVal(ds) ==
    IF ds = <<>> THEN 0
    ELSE IntVal(SubSeq(ds, 1, Len(ds) - 1)) * 10 + DigitVal(ds[Len(ds)])

\* str(n), n >= 0
RECURSIVE IntStr(_)
IntStr(n) ==
    IF n < 10 THEN <<DigitSeq[n + 1]>>
    ELSE Append(IntStr(n \div 10), DigitSeq[(n % 10) + 1])

\* The end of the run of digits of s that starts at i (i - 1: no digit at i)
RECURSIVE DigitRunEnd(_, _)
DigitRunEnd(s, i) ==
    IF i <= Len(s) /\ s[i] \in Digits THEN DigitRunEnd(s, i + 1) ELSE i - 1

\* -?\d+(?:\.\d+)? can match at i
NumMatchAt(s, i) ==
    \/ s[i] \in Digits
    \/ s[i] = "-" /\ i < Len(s) /\ s[i + 1] \in Digits

\* NUM_RE.search(s): the leftmost match, each part greedy: whether there is
\* one, its sign, its digits and its fraction's digits
NUM_RE_search(s) ==
    IF ~\E i \in 1..Len(s) : NumMatchAt(s, i)
    THEN [found |-> FALSE, neg |-> FALSE, int |-> <<>>, frac |-> <<>>]
    ELSE LET i == CHOOSE i \in 1..Len(s) :
                      NumMatchAt(s, i) /\ \A j \in 1..(i - 1) : ~NumMatchAt(s, j)
             neg == s[i] = "-"
             d0 == IF neg THEN i + 1 ELSE i
             d1 == DigitRunEnd(s, d0)
             hasFrac == d1 + 2 <= Len(s) /\ s[d1 + 1] = "." /\ s[d1 + 2] \in Digits
             f1 == IF hasFrac THEN DigitRunEnd(s, d1 + 2) ELSE d1
         IN  [found |-> TRUE,
              neg |-> neg,
              int |-> SubSeq(s, d0, d1),
              frac |-> IF hasFrac THEN SubSeq(s, d1 + 2, f1) ELSE <<>>]

RECURSIVE Pow2Mod625(_)
Pow2Mod625(e) == IF e = 0 THEN 1 ELSE (2 * Pow2Mod625(e - 1)) % 625

\* floor(log2(n / den)) for n > 0
RECURSIVE Log2Floor(_, _)
Log2Floor(n, den) ==
    IF n >= 2 * den THEN Log2Floor(n, 2 * den) + 1
    ELSE IF n < den THEN Log2Floor(2 * n, den) - 1
    ELSE 0

\* float(n / 10^4) > n / 10^4, for n not a multiple of 625: the double is
\* m / 2^(52 - p) with m = n * 2^(48 - p) / 625 rounded to the nearest
\* integer, p = floor(log2(n / 10^4)); it lies above n / 10^4 when the
\* remainder of that division is more than half of 625.
DoubleAbove(n) ==
    LET p == Log2Floor(n, 10000)
        r == ((n % 625) * Pow2Mod625(48 - p)) % 625
    IN  2 * r > 625

AllZero(ds) == \A i \in 1..Len(ds) : ds[i] = "0"

\* Truncation to three decimals in place of rounding
RoundsDown(int, frac) == FALSE

\* Whether f"{float(text):.3f}" rounds the digit after the third decimal up:
\* the decimal expansion of the double decides; where the text lies exactly
\* half way between two results, the double lies above or below it, or
\* (a multiple of 1/16) is the text's value and rounds half to even.
RoundsUp(int, frac) ==
    LET rest == SubSeq(frac, 4, Len(frac))
        n == IntVal(int) * 10000 + IntVal(SubSeq(frac, 1, 4))
    IN  IF Len(frac) <= 3 \/ AllZero(rest) THEN FALSE
        ELSE IF DigitVal(rest[1]) > 5 THEN TRUE
        ELSE IF DigitVal(rest[1]) < 5 THEN FALSE
        ELSE IF ~AllZero(Tail(rest)) THEN TRUE
        ELSE IF n % 625 = 0 THEN (n \div 10) % 2 = 1
        ELSE DoubleAbove(n)

\* f"{num:.3f}" of the number of match m
Format3f(m) ==
    LET f3 == SubSeq(m.frac \o Str("000"), 1, 3)
        q == IntVal(m.int) * 1000 + IntVal(f3)
                + (IF RoundsUp(m.int, m.frac) THEN 1 ELSE 0)
        dec == IntStr(q % 1000)
    IN  (IF m.neg THEN <<"-">> ELSE <<>>) \o IntStr(q \div 1000) \o <<".">>
            \o SubSeq(Str("000"), 1, 3 - Len(dec)) \o dec

clean_number(val) ==
    IF IsBlank(val) THEN Result(val, FALSE, "none")
    ELSE LET s == val
             m == NUM_RE_search(replace(s, ",", <<>>))
             fixed == rstripCh(rstripCh(Format3f(m), "0"), ".")
         IN  IF ~m.found THEN Result(s, FALSE, "unchanged")
             ELSE Result(fixed, fixed # s,
                         IF fixed # s THEN "number_extract" ELSE "standard")

----------------------------------------------------------------------------
(* clean_cell: the dispatcher *)

clean_cell(col, val) ==
    IF col \in {"WuLiaoJianCheng", "MingCheng"} THEN clean_mylar_name(val)
    ELSE IF col = "YanSe" THEN clean_color(val)
    ELSE IF col = "CaiZhi" THEN clean_material(val)
    ELSE IF col = "ShiFouDaiZhiWen" THEN clean_fingerprint(val)
    ELSE IF col = "BeiJiaoXingHao" THEN clean_adhesive(val)
    ELSE IF col = "QiTaTeShuShuXing" THEN clean_other(val)
    ELSE IF col \in {"Chang_L(mm)", "Kuan_W(mm)", "Hou_H(mm)"} THEN clean_number(val)
    ELSE Result(val, FALSE, "none")

----------------------------------------------------------------------------
(* Cell values the rules are applied to *)

MaxPad == 1
MaxFracLen == 4

\* The strings over chars of the lengths lo..hi
Strings(chars, lo, hi) == UNION {[1..n -> chars] : n \in lo..hi}

Pads == Strings({" "}, 0, MaxPad)

Padded(S) == {l \o s \o r : l \in Pads, r \in Pads, s \in S}

Cased(S) == UNION {{s, upper(s), lower(s), capitalize(s)} : s \in S}

EditChars == {" ", "\t", "-", "s", "X"}

Insertions(s) ==
    {SubSeq(s, 1, i) \o <<c>> \o SubSeq(s, i + 1, Len(s)) :
        i \in 0..Len(s), c \in EditChars}

Deletions(s) ==
    {SubSeq(s, 1, i - 1) \o SubSeq(s, i + 1, Len(s)) : i \in 1..Len(s)}

\* A seed with one character more or less
Edited(S) == UNION {Insertions(s) \cup Deletions(s) : s \in S}

\* A seed as typed: in another case and padded, or with one character more
\* or less
Variants(S) == Padded(Cased(S)) \cup Edited(S)

\* A keyword inside other text
Affixes == {Str("s"), Str("ish"), Str(" X"), Str("Mr "), Str("-1"),
            <<"U+7684">>, Str(" Mylar")}

Embedded(S) == UNION {{a \o s, s \o a} : s \in S, a \in Affixes}

BlankInputs == {NA} \cup {l \o r : l \in Strings(Whitespace, 0, 1), r \in Pads}

Range(seq) == {seq[i] : i \in 1..Len(seq)}

MylarSeeds ==
    Range(MYLAR_CATS)
    \cup {CN_TOUCHPAD, CN_KEYBOARD, CN_MAINBOARD, CN_SUBBOARD, CN_MYLAR,
          CN_SUBBOARD \o CN_MYLAR, CN_MYLAR \o Str(" MB"), Str("MB") \o CN_MYLAR,
          Str("Mylar ") \o CN_MAINBOARD, CN_MYLAR \o Str("TP"),
          Str("DDR"), Str("DDR4 cover"), Str("Mylar MBX"), Str("Mylar DBA"),
          Str("AMB Mylar"), Str("Output Mylar"), Str("Mylar TP"), Str("TP-Mylar"),
          Str("Touch Mylar"), Str("http mylar"), Str("KB_Mylar"), Str("mb-mylar"),
          Str("mylar-db"), Str("Cover Mylar"), Str("MB KB Mylar"),
          Str("Mylar KB DB"), Str("Project X"), Str("MB"), Str("Tcon"),
          Str("Mylr"), Str("Mlar"), Str("MB Mylr"), Str("D Cover Mylr"),
          Str("TCON Mylr"), Str("Touchpad Mylr"), Str("tcon_mylr"),
          <<"U+5F20", "U+4E09">>}

ColorWords == Range(COLORS) \cup {COLOR_CN[i][1] : i \in 1..Len(COLOR_CN)}

ColorSeeds ==
    ColorWords
    \cup {Str("Red"), Str("Bluetooth"), Str("Navy Blue"), Str("Black Blue"),
          Str("Yelow"), Str("Blak"), Str("Bule"), Str("Yel low"),
          <<"U+6DF1">> \o CN_LAN \o CN_SE, CN_HUANG \o Str("Yellow")}

MaterialSeeds ==
    Range(MATERIALS) \cup {MATERIAL_CN[i][1] : i \in 1..Len(MATERIAL_CN)}
    \cup {Str("ABS"), Str("PC+ABS"), Str("PETG"), Str("Acrylc"), Str("Acrilic"),
          Str("P C"), Str("Poly")}

FingerprintSeeds ==
    {W_FP, WO_FP, Str("W/FP"), Str("W/OFP"), CN_YOU, CN_WU, Str("YES"), Str("NO"),
     Str("Y"), Str("N"), Str("with fp"), Str("without fp"), Str("has fp"),
     Str("no fp"), Str("NOFP"), Str("W/ FP ok"), Str("FP"), Str("W/"),
     Str("W/O"), Str("know"), Str("maybe"), Str("W / F P"), Str("w/o  fp"),
     CN_YOU \o <<"U+6307", "U+7EB9">>, CN_WU \o <<"U+6307", "U+7EB9">>}

AdhesiveSeeds ==
    Range(ADHESIVES)
    \cup {Str("3m 9495"), Str("3M-9495"), Str("3M9448C"), Str("3M9448"),
          Str("3M 300 LSE"), Str("3M300LSEA1"), Str("DSTT13N"), Str("dstt-7n"),
          Str("DSTT-13NN"), Str("SDK7100AB"), Str("Tesa"), Str("3M")}

OtherSeeds ==
    Range(OTHERS)
    \cup {Str("glue"), Str("Glued"), Str("adhesive tape"), Str("Bonding"),
          Str("Rebond"), Str("none"), Str("Objects"), CN_JIAOHE, CN_ZHANJIE,
          CN_ZHANHE, <<"U+8D34">> \o CN_JIAOHE, <<"U+8D34", "U+5408">>}

NumDigits == {"0", "5", "9"}

NumInts == {Str("0"), Str("5"), Str("9"), Str("05"), Str("10"), Str("12"), Str("99")}

\* digits and a fraction of up to MaxFracLen digits; negative; with a unit
NumTexts ==
    LET plain == {int \o <<".">> \o f :
                     int \in NumInts, f \in Strings(NumDigits, 1, MaxFracLen)}
    IN  plain \cup {<<"-">> \o t : t \in plain} \cup {t \o Str("mm") : t \in plain}

NumberSeeds ==
    {Str("12.3456mm"), Str("12.30mm"), Str("10.000"), Str("abc"), Str("1,234.5"),
     Str("L=12.5mm"), Str("- 5"), Str("1-2"), Str(".5"), Str("1."), Str("1.2.3"),
     Str("--3"), Str("-.5"), Str("-0.0001"), Str("0.0625"), Str("0.1875"),
     Str("0.3125"), Str("0.4375"), Str("1.0005"), Str("2.0005"), Str("8.1235"),
     Str("007"), Str("1e5"), Str("12 x 34"), Str("12,.5"), Str("1,,2"), Str(","),
     Str("-"), Str("."), Str("3.14159"), Str("100"), Str("0.00049"),
     Str("0.000501"), Str("12.34560"), Str("12.346"), Str("-7")}

\* The column a rule is exercised through, and the values it is given there
RuleColumns == Range(TARGET_COLS) \cup {"BeiZhu"}

BasicInputs == Padded(Range(MYLAR_CATS) \cup ColorWords
                         \cup {W_FP, Str("12.30mm"), Str("abc")})

InputsFor(col) ==
    BlankInputs \cup
    CASE col = "WuLiaoJianCheng" -> Variants(MylarSeeds)
      [] col = "YanSe" -> Variants(ColorSeeds) \cup Embedded(Cased(ColorWords))
                             \cup Embedded(Edited(Range(COLORS)))
      [] col = "CaiZhi" -> Variants(MaterialSeeds) \cup Embedded(Cased(MaterialSeeds))
      [] col = "ShiFouDaiZhiWen" -> Variants(FingerprintSeeds)
      [] col = "BeiJiaoXingHao" -> Variants(AdhesiveSeeds)
      [] col = "QiTaTeShuShuXing" -> Variants(OtherSeeds)
      [] col = "Chang_L(mm)" -> Variants(NumberSeeds) \cup NumTexts
      [] OTHER -> BasicInputs

----------------------------------------------------------------------------
(* The rules, one cell at a time *)

NoResult == Result(NA, FALSE, "")

NoFile == [columns |-> <<>>, data |-> <<>>]

RuleIdle ==
    /\ rstage = "idle" /\ rcol = "" /\ rval = NA
    /\ res1 = NoResult /\ res2 = NoResult

\* A cell of a column is given
Input ==
    /\ rstage = "idle"
    /\ \E col \in RuleColumns : \E val \in InputsFor(col) :
          /\ rcol' = col
          /\ rval' = val
    /\ rstage' = "input"
    /\ res1' = NoResult
    /\ res2' = NoResult
    /\ UNCHANGED driverVars

\* new_val, changed, rule = clean_cell(col_name, val)
Apply ==
    /\ rstage = "input"
    /\ res1' = clean_cell(rcol, rval)
    /\ rstage' = "applied"
    /\ UNCHANGED <<rcol, rval, res2>>
    /\ UNCHANGED driverVars

\* The returned value is cleaned again (the cleaned file is cleaned again)
Reapply ==
    /\ rstage = "applied"
    /\ res2' = clean_cell(rcol, res1.value)
    /\ rstage' = "reapplied"
    /\ UNCHANGED <<rcol, rval, res1>>
    /\ UNCHANGED driverVars

DriverIdle ==
    /\ phase = "idle" /\ uploaded_file = NoFile /\ df = <<>> /\ missing = <<>>
    /\ todo = <<>> /\ col_name = "" /\ row_idx = 2 /\ new_col = <<>>
    /\ cell_colors = <<>> /\ changes = <<>>

RuleInit == RuleIdle /\ DriverIdle

RuleNext == Input \/ Apply \/ Reapply

RuleSpec == RuleInit /\ [][RuleNext]_vars

----------------------------------------------------------------------------
(* The cleaning pass over an uploaded table *)

MaxRows == 2

\* The column orders of the uploaded files: target columns in and out of the
\* order of TARGET_COLS, a column that is no target, a target column without
\* a rule, no column at all
Layouts ==
    {<<>>,
     <<"BeiZhu">>,
     <<"Chang_L(mm)", "XiangMuMingCheng">>,
     <<"WuLiaoJianCheng", "YanSe", "Chang_L(mm)">>,
     <<"YanSe", "BeiZhu", "MingCheng">>}

\* The two values a cell of a column takes in the uploaded files: where the
\* column has a rule, one the rule rewrites and one it leaves
CellChoice(col) ==
    CASE col \in {"WuLiaoJianCheng", "MingCheng"} -> <<CN_MYLAR, Str("Project X")>>
      [] col = "YanSe" -> <<CN_HEI \o CN_SE, NA>>
      [] col = "Chang_L(mm)" -> <<Str("12.30mm"), Str("12.3")>>
      [] col = "XiangMuMingCheng" -> <<CN_MYLAR, NA>>
      [] OTHER -> <<CN_HEI \o CN_SE, Str("abc")>>

Tables ==
    UNION {{[columns |-> cols,
             data |-> [c \in Range(cols) |->
                          [i \in 1..n |-> CellChoice(c)[pick[c][i]]]]] :
               pick \in [Range(cols) -> [1..n -> {1, 2}]]} :
           cols \in Layouts, n \in 0..MaxRows}

\* df.columns.get_loc(col) + 1: the Excel column of col
ExcelColumn(cols, col) == CHOOSE i \in 1..Len(cols) : cols[i] = col

\* The target columns in the order of the file in place of that of TARGET_COLS
PresentInFileOrder(cols) == SelectSeq(cols, LAMBDA c : c \in Range(TARGET_COLS))

\* [c for c in TARGET_COLS if c in df.columns]
PresentTargets(cols) == SelectSeq(TARGET_COLS, LAMBDA c : c \in Range(cols))

\* [c for c in TARGET_COLS if c not in df.columns]
MissingTargets(cols) == SelectSeq(TARGET_COLS, LAMBDA c : c \notin Range(cols))

\* A file is uploaded: it is read into df and its missing target columns are
\* reported
Upload ==
    /\ phase = "idle"
    /\ \E table \in Tables :
          /\ uploaded_file' = table
          /\ df' = table.data
          /\ missing' = MissingTargets(table.columns)
    /\ phase' = "uploaded"
    /\ UNCHANGED <<todo, col_name, row_idx, new_col, cell_colors, changes>>
    /\ UNCHANGED ruleVars

\* The button is pressed: the loop over the present target columns starts
StartCleaning ==
    /\ phase = "uploaded"
    /\ phase' = "cleaning"
    /\ cell_colors' = <<>>
    /\ changes' = <<>>
    /\ todo' = PresentTargets(uploaded_file.columns)
    /\ col_name' = ""
    /\ UNCHANGED <<uploaded_file, df, missing, row_idx, new_col>>
    /\ UNCHANGED ruleVars

\* for col_name in ...: the next column, from its first data row (Excel row 2)
NextColumn ==
    /\ phase = "cleaning"
    /\ col_name = ""
    /\ todo # <<>>
    /\ col_name' = Head(todo)
    /\ todo' = Tail(todo)
    /\ new_col' = <<>>
    /\ row_idx' = 2
    /\ UNCHANGED <<uploaded_file, phase, df, missing, cell_colors, changes>>
    /\ UNCHANGED ruleVars

\* The body of the inner loop for one cell
CleanCell ==
    /\ phase = "cleaning"
    /\ col_name # ""
    /\ row_idx - 1 <= Len(df[col_name])
    /\ LET val == df[col_name][row_idx - 1]
           r == clean_cell(col_name, val)
           col_idx == ExcelColumn(uploaded_file.columns, col_name)
       IN  /\ new_col' = Append(new_col, r.value)
           /\ cell_colors' = IF r.changed
                             THEN Append(cell_colors, <<row_idx, col_idx>>)
                             ELSE cell_colors
           /\ changes' = IF r.changed
                         THEN Append(changes, [col |-> col_name, row |-> row_idx,
                                               old |-> val, new |-> r.value,
                                               rule |-> r.rule])
                         ELSE changes
    /\ row_idx' = row_idx + 1
    /\ UNCHANGED <<uploaded_file, phase, df, missing, todo, col_name>>
    /\ UNCHANGED ruleVars

\* df[col_name] = new_col, after the column's last cell
ColumnDone ==
    /\ phase = "cleaning"
    /\ col_name # ""
    /\ row_idx - 1 > Len(df[col_name])
    /\ df' = [df EXCEPT ![col_name] = new_col]
    /\ col_name' = ""
    /\ UNCHANGED <<uploaded_file, phase, missing, todo, row_idx, new_col,
                   cell_colors, changes>>
    /\ UNCHANGED ruleVars

\* After the last column the table, the fills and the log are written
Save ==
    /\ phase = "cleaning"
    /\ col_name = ""
    /\ todo = <<>>
    /\ phase' = "done"
    /\ UNCHANGED <<uploaded_file, df, missing, todo, col_name, row_idx, new_col,
                   cell_colors, changes>>
    /\ UNCHANGED ruleVars

Init == DriverIdle /\ RuleIdle

Next == Upload \/ StartCleaning \/ NextColumn \/ CleanCell \/ ColumnDone \/ Save

Spec == Init /\ [][Next]_vars

----------------------------------------------------------------------------
(* Properties of the rules (RuleSpec) *)

\* clean_cell has returned for the cell rcol, rval
Applied == rstage \in {"applied", "reapplied"}

IsWhitespaceOnly(v) == v # NA /\ \A i \in 1..Len(v) : v[i] \in Whitespace

\* A string with something other than whitespace in it
IsText(v) == v # NA /\ ~IsWhitespaceOnly(v)

\* C1: whenever a rule returns changed = true, the value it returns differs
\* from the value it was given.
C1_ChangedValueDiffers == Applied /\ res1.changed => res1.value # rval

\* C2: cleaning the value a rule returned once more returns changed = false.
C2_Idempotent == rstage = "reapplied" => ~res2.changed

\* C3: whenever a rule returns changed = false for a string, the value it
\* returns is the string it was given, leading and trailing whitespace
\* included.
C3_UnchangedValueKept == Applied /\ rval # NA /\ ~res1.changed => res1.value = rval

\* C5: a missing, empty or whitespace-only value comes back as it is, with
\* changed = false and rule "none", whatever the column.
C5_BlankPassesThrough ==
    Applied /\ (rval = NA \/ IsWhitespaceOnly(rval))
        => res1 = Result(rval, FALSE, "none")

C5_Witness ==
    /\ rstage = "applied"
    /\ rcol = "Chang_L(mm)"
    /\ rval = <<"\t", " ">>
    /\ res1.rule = "none"

IsColorToken(s) == lower(s) \in ColorTokens

ContainsColorWord(s) == \E t \in ColorTokens : contains(lower(s), t)

\* The colour column was given text that holds a colour word and is not,
\* trimmed, a colour word alone
C6_Case ==
    /\ Applied
    /\ rcol = "YanSe"
    /\ IsText(rval)
    /\ ~IsColorToken(strip(rval))
    /\ ContainsColorWord(rval)

\* C6 as claimed: clean_color leaves every value that holds a colour word
\* inside other text unchanged.
C6_EmbeddedColorUnchanged == C6_Case => ~res1.changed

\* s is "Yellow" with one character inserted
YellowPlusOne(s) ==
    /\ Len(s) = 7
    /\ \E i \in 1..7 : SubSeq(s, 1, i - 1) \o SubSeq(s, i + 1, 7) = Str("Yellow")

\* C6 as amended: clean_color leaves a value that holds a colour word inside
\* other text unchanged (the trimmed value, rule "unchanged"), except when
\* the trimmed value is "Yellow" with one more character: that value scores
\* 12/13 = 92.3 against Yellow and is rewritten to Yellow, rule "fuzzy".
C6_EmbeddedColorFuzzy ==
    C6_Case =>
        IF YellowPlusOne(strip(rval))
        THEN res1 = Result(Str("Yellow"), TRUE, "fuzzy")
        ELSE res1 = Result(strip(rval), FALSE, "unchanged")

C6_Witness ==
    /\ C6_Case
    /\ rval = Str("Yellows")
    /\ res1 = Result(Str("Yellow"), TRUE, "fuzzy")

\* raw is a canonical adhesive code but for case and spaces
IsCodeIgnoringCaseAndSpaces(raw) ==
    \E i \in 1..Len(ADHESIVES) :
        replace(upper(raw), " ", <<>>) = replace(upper(ADHESIVES[i]), " ", <<>>)

\* The best similarity of raw to a choice of pool is at least threshold
BestScoreAtLeast(raw, pool, threshold) ==
    \E i \in 1..Len(pool) :
        200 * Lcs(raw, pool[i]) >= threshold * (Len(raw) + Len(pool[i]))

C7_Case == Applied /\ rcol = "BeiJiaoXingHao" /\ IsText(rval)

\* C7: clean_adhesive changes a value only when it is a canonical code but
\* for case and spaces, or scores at least 94 against a canonical code; a
\* value that is neither comes back trimmed with changed = false and rule
\* "unchanged"; a canonical code comes back with changed = false and rule
\* "standard".
C7_AdhesiveThreshold ==
    C7_Case =>
        LET raw == strip(rval)
        IN  /\ res1.changed =>
                  \/ IsCodeIgnoringCaseAndSpaces(raw)
                  \/ BestScoreAtLeast(raw, ADHESIVES, 94)
            /\ ~IsCodeIgnoringCaseAndSpaces(raw) /\ ~BestScoreAtLeast(raw, ADHESIVES, 94)
                  => res1 = Result(raw, FALSE, "unchanged")
            /\ InList(raw, ADHESIVES) => res1 = Result(raw, FALSE, "standard")

\* "3M9495s" scores 12/13 = 92.3 against 3M9495
C7_Witness ==
    /\ C7_Case
    /\ rval = Str("3M9495s")
    /\ BestScoreAtLeast(rval, ADHESIVES, 92)
    /\ res1 = Result(rval, FALSE, "unchanged")

RECURSIVE Pow10(_)
Pow10(k) == IF k = 0 THEN 1 ELSE 10 * Pow10(k - 1)

Abs(x) == IF x < 0 THEN -x ELSE x

\* out is the decimal text of q / 1000, with the sign of neg, without
\* trailing zeros in the fraction and without a trailing point
IsShortestDecimal(out, neg, q) ==
    LET int == IntStr(q \div 1000)
        frac == rstripCh(SubSeq(Str("000"), 1, 3 - Len(IntStr(q % 1000)))
                            \o IntStr(q % 1000), "0")
    IN  out = (IF neg THEN <<"-">> ELSE <<>>) \o int
                 \o (IF frac = <<>> THEN <<>> ELSE <<".">> \o frac)

C8_Case == Applied /\ rcol = "Chang_L(mm)" /\ IsText(rval)

\* C8: clean_number returns a value without a digit (commas removed) as it
\* is, with changed = false and rule "unchanged"; otherwise it returns the
\* first number of the text (an optional minus sign, digits, an optional
\* fraction) rounded to the nearest multiple of 0.001, written without
\* trailing zeros and without a trailing point, with changed = true and rule
\* "number_extract" when that differs from the text, else with
\* changed = false and rule "standard".
C8_NumberExtract ==
    C8_Case =>
        LET text == replace(rval, ",", <<>>)
            m == NUM_RE_search(text)
            len == Len(m.frac)
            \* the number is n / 10^len
            n == IntVal(m.int \o m.frac)
            out == res1.value
        IN  /\ (~\E i \in 1..Len(text) : text[i] \in Digits)
                  => res1 = Result(rval, FALSE, "unchanged")
            /\ (\E i \in 1..Len(text) : text[i] \in Digits) =>
                  /\ m.found
                  /\ len <= 3 => IsShortestDecimal(out, m.neg, n * Pow10(3 - len))
                  /\ len > 3 =>
                        \E q \in n \div Pow10(len - 3) .. n \div Pow10(len - 3) + 1 :
                            /\ IsShortestDecimal(out, m.neg, q)
                            /\ 2 * Abs(q * Pow10(len - 3) - n) <= Pow10(len - 3)
                  /\ res1.changed = (out # rval)
                  /\ res1.rule = IF out # rval THEN "number_extract" ELSE "standard"
            /\ rval = Str("12.3456mm")
                  => res1 = Result(Str("12.346"), TRUE, "number_extract")
            /\ rval = Str("12.30mm") => res1 = Result(Str("12.3"), TRUE, "number_extract")
            /\ rval = Str("10.000") => res1 = Result(Str("10"), TRUE, "number_extract")
            /\ rval = Str("12.346") => res1 = Result(Str("12.346"), FALSE, "standard")
            /\ rval = Str("abc") => res1 = Result(Str("abc"), FALSE, "unchanged")

C8_Witness ==
    /\ C8_Case
    /\ rval = Str("12.3456mm")
    /\ res1 = Result(Str("12.346"), TRUE, "number_extract")

C9_Case == Applied /\ rcol = "ShiFouDaiZhiWen" /\ IsText(rval)

\* C9: clean_fingerprint returns the canonical flag for a value whose
\* uppercased form without spaces is W/FP or W/OFP, with changed = false and
\* rule "standard" when the value is the canonical flag already and with
\* changed = true and rule "case_fix" when it is not; the yes/no words and
\* the other spellings give the flag with rule "mapping"; any other value
\* comes back as it was given, with changed = false and rule "unchanged".
C9_FingerprintFlag ==
    C9_Case =>
        LET compact == replace(upper(strip(rval)), " ", <<>>)
            Spelt(words) == \E w \in words : contains(compact, w)
        IN  IF compact = Str("W/FP")
            THEN res1 = Result(W_FP, rval # W_FP,
                               IF rval = W_FP THEN "standard" ELSE "case_fix")
            ELSE IF compact = Str("W/OFP")
            THEN res1 = Result(WO_FP, rval # WO_FP,
                               IF rval = WO_FP THEN "standard" ELSE "case_fix")
            ELSE IF compact \in {CN_YOU, Str("YES"), Str("Y")}
            THEN res1 = Result(W_FP, TRUE, "mapping")
            ELSE IF compact \in {CN_WU, Str("NO"), Str("N")}
            THEN res1 = Result(WO_FP, TRUE, "mapping")
            ELSE IF Spelt({Str("W/FP"), Str("WITHFP"), Str("HASFP")})
            THEN res1 = Result(W_FP, TRUE, "mapping")
            ELSE IF Spelt({Str("W/OFP"), Str("WITHOUTFP"), Str("NOFP")})
            THEN res1 = Result(WO_FP, TRUE, "mapping")
            ELSE res1 = Result(rval, FALSE, "unchanged")

\* The short-name column was given text with the generic keyword and
\* without any of the direct keywords
C10_Case ==
    /\ Applied
    /\ rcol = "WuLiaoJianCheng"
    /\ IsText(rval)
    /\ contains(rval, CN_MYLAR) \/ contains(upper(rval), Str("MYLAR"))
    /\ ~contains(rval, CN_TOUCHPAD) /\ ~contains(rval, CN_KEYBOARD)
    /\ ~contains(rval, CN_MAINBOARD) /\ ~contains(rval, CN_SUBBOARD)
    /\ ~contains(upper(rval), Str("DDR"))

\* The runs of Latin letters of the uppercased text
LatinWords(s) ==
    split([i \in 1..Len(s) |-> IF IsUpperCh(upper(s)[i]) THEN upper(s)[i] ELSE " "])

Markers == {"MB", "DB", "KB", "TOUCH"}

MarkerWords(marker) == IF marker = "TOUCH" THEN {Str("TOUCH"), Str("TP")} ELSE {Str(marker)}

\* marker is a whitespace-delimited word of the text
IsToken(s, marker) == \E w \in MarkerWords(marker) : InList(w, split(upper(s)))

\* marker starts a run of Latin letters of the text
StartsWord(s, marker) ==
    \E w \in MarkerWords(marker) :
        \E i \in 1..Len(LatinWords(s)) : startswith(LatinWords(s)[i], w)

\* The result for the set found of markers, MB before DB before KB before
\* the touchpad markers
MarkerResult(found) ==
    IF "MB" \in found THEN Result(Str("MB Mylar"), TRUE, "keyword_rule")
    ELSE IF "DB" \in found THEN Result(Str("DB Mylar"), TRUE, "keyword_rule")
    ELSE IF "KB" \in found THEN Result(Str("KB Mylar"), TRUE, "keyword_rule")
    ELSE IF "TOUCH" \in found THEN Result(Str("Touchpad Mylar"), TRUE, "keyword_rule")
    ELSE Result(Str("Mylar"), TRUE, "cn_keyword")

\* C10: with the generic keyword and no direct keyword, clean_mylar_name
\* returns the sub-category of the first marker (MB, DB, KB, then TOUCH or
\* TP) found as a word of the text, with rule "keyword_rule", and the
\* generic Mylar with rule "cn_keyword" when none is found; a marker that
\* is a whitespace-delimited word is found, and a marker whose letters occur
\* only inside a longer word (not at its start) is not.
C10_MarkerIsToken ==
    C10_Case =>
        \E found \in SUBSET Markers :
            /\ \A marker \in Markers : IsToken(rval, marker) => marker \in found
            /\ \A marker \in found : StartsWord(rval, marker)
            /\ res1 = MarkerResult(found)

----------------------------------------------------------------------------
(* Properties of the cleaning pass (Spec) *)

TargetPos(col) == CHOOSE i \in 1..Len(TARGET_COLS) : TARGET_COLS[i] = col

\* The cells of the uploaded file in target columns, as <<column, Excel row>>
TargetCells ==
    {<<c, i + 1>> : c \in Range(TARGET_COLS) \cap Range(uploaded_file.columns),
                    i \in 1..MaxRows}
        \cap {x \in Range(uploaded_file.columns) \X (2..MaxRows + 1) :
                 x[2] - 1 <= Len(uploaded_file.data[x[1]])}

Original(cell) == uploaded_file.data[cell[1]][cell[2] - 1]

RecordsOf(cell) ==
    {k \in 1..Len(changes) : changes[k].col = cell[1] /\ changes[k].row = cell[2]}

\* C4: after the pass the log holds one record (column, row, old value, new
\* value, rule) for each cell of a present target column that its rule
\* changed and none for another cell, in the order of TARGET_COLS and by
\* ascending row within a column, the first data row being row 2; the
\* flagged coordinates are those of the records; the absent target columns
\* are reported and skipped.
C4_LogAndFlags ==
    phase = "done" =>
        /\ \A cell \in TargetCells :
              LET r == clean_cell(cell[1], Original(cell))
              IN  /\ Cardinality(RecordsOf(cell)) = IF r.changed THEN 1 ELSE 0
                  /\ \A k \in RecordsOf(cell) :
                        /\ changes[k].old = Original(cell)
                        /\ changes[k].new = r.value
                        /\ changes[k].rule = r.rule
                  /\ df[cell[1]][cell[2] - 1] = r.value
        /\ \A k \in 1..Len(changes) : <<changes[k].col, changes[k].row>> \in TargetCells
        /\ \A k, l \in 1..Len(changes) :
              k < l =>
                 \/ TargetPos(changes[k].col) < TargetPos(changes[l].col)
                 \/ /\ changes[k].col = changes[l].col
                    /\ changes[k].row < changes[l].row
        /\ Range(cell_colors) =
              {<<changes[k].row, ExcelColumn(uploaded_file.columns, changes[k].col)>> :
                  k \in 1..Len(changes)}
        /\ Len(cell_colors) = Len(changes)
        /\ Range(missing) = Range(TARGET_COLS) \ Range(uploaded_file.columns)
        /\ \A c \in Range(uploaded_file.columns) \ Range(TARGET_COLS) :
              df[c] = uploaded_file.data[c]
        /\ uploaded_file.data =
                  [c \in {"WuLiaoJianCheng", "YanSe", "Chang_L(mm)"} |->
                      <<CellChoice(c)[1]>>]
              => /\ Len(changes) = 3
                 /\ Len(cell_colors) = 3
                 /\ df["WuLiaoJianCheng"] = <<Str("Mylar")>>
                 /\ df["YanSe"] = <<Str("Black")>>
                 /\ df["Chang_L(mm)"] = <<Str("12.3")>>

\* A file whose columns are not in the order of TARGET_COLS, every cell of
\* its two target columns rewritten
C4_Witness ==
    /\ phase = "done"
    /\ uploaded_file.columns = <<"YanSe", "BeiZhu", "MingCheng">>
    /\ Len(changes) = 4
    /\ changes[1].col = "MingCheng" /\ changes[2].row = 3
    /\ changes[3].col = "YanSe"
    /\ cell_colors = <<<<2, 3>>, <<3, 3>>, <<2, 1>>, <<3, 1>>>>

====
